---- MODULE Spec2Model ----
(***************************************************************************)
(* Model of the poker bots of players/my_bot.py (HybridBot, GameInfoAPI)   *)
(* and players/random_bot1.py (RandomBot).                                 *)
(*                                                                         *)
(* Probabilities are kept in hundredths (0.5 is 50).  A call of            *)
(* random.random() returns k / DrawDen for some k in 0 .. DrawDen - 1; the *)
(* comparisons of the code are made exactly, by cross-multiplication.      *)
(***************************************************************************)
EXTENDS Integers, Sequences, FiniteSets, TLC

VARIABLES
    raise_frequency,    \* HybridBot.raise_frequency, in hundredths
    play_frequency,     \* HybridBot.play_frequency, in hundredths
    hands_played,       \* HybridBot.hands_played
    hands_won,          \* HybridBot.hands_won
    hook,               \* the last hook the engine called, with its argument
    pc,                 \* "idle", or the name of the call that has returned
    call,               \* the arguments of that call
    draws,              \* the values random.random() returned during it, in order
    result              \* what it returned

vars == <<raise_frequency, play_frequency, hands_played, hands_won, hook,
          pc, call, draws, result>>

botVars  == <<raise_frequency, play_frequency, hands_played, hands_won, hook>>
callVars == <<pc, call, draws, result>>

----------------------------------------------------------------------------
(* Bounds of the model *)

MaxHands == 16      \* hand_complete calls in one run
MaxPlayers == 8     \* len(players) handed to tournament_start is 2 .. MaxPlayers
MaxBet == 3         \* min_bet and max_bet are 0 .. MaxBet
MaxBlind == 1       \* game_state.big_blind is 1 .. MaxBlind
MaxPot == 4         \* game_state.pot is 0 .. MaxPot
MaxCurBet == 1      \* game_state.current_bet is 0 .. MaxCurBet
MaxCards == 4       \* length of the card lists handed to the draw detector
DrawDen == 4        \* random.random() is k / DrawDen, k in 0 .. DrawDen - 1

----------------------------------------------------------------------------
(* Constants of the program, in hundredths where they are probabilities *)

DEFAULT_RAISE_FREQ == 50
DEFAULT_PLAY_FREQ == 75
RAISE_FREQ_MAX == 80
PLAY_FREQ_MAX == 90
RAISE_FREQ_MIN == 30
PLAY_FREQ_MIN == 60
WIN_RAISE_STEP == 2
WIN_PLAY_STEP == 1
LOSS_RAISE_STEP == 1
LOSS_PLAY_STEP == 1
SMALL_TABLE == 4
LARGE_TABLE == 8
SMALL_TABLE_RAISE == 60
SMALL_TABLE_PLAY == 85
LARGE_TABLE_RAISE == 45
LARGE_TABLE_PLAY == 70
LIMP_PROB == 12
SEMI_BLUFF_PROB == 40
ACE == 14
KING == 13
QUEEN == 12
JACK == 11
TEN == 10
NINE == 9
EIGHT == 8

Min(a, b) == IF a <= b THEN a ELSE b
Max(a, b) == IF a >= b THEN a ELSE b

----------------------------------------------------------------------------
(* HybridBot: the adaptive knobs *)

NoHook == [op |-> "none", n |-> 0, won |-> FALSE]
NoCall == [op |-> "none"]
NoResult == [action |-> "NONE", amount |-> 0]

\* HybridBot.__init__
InitBot ==
    /\ hands_played = 0
    /\ hands_won = 0
    /\ raise_frequency = DEFAULT_RAISE_FREQ
    /\ play_frequency = DEFAULT_PLAY_FREQ
    /\ hook = NoHook

InitIdle ==
    /\ pc = "idle"
    /\ call = NoCall
    /\ draws = <<>>
    /\ result = NoResult

\* The knobs after a won hand
WinKnobs(rf, pf) ==
    [rf |-> Min(RAISE_FREQ_MAX, rf + WIN_RAISE_STEP),
     pf |-> Min(PLAY_FREQ_MAX, pf + WIN_PLAY_STEP)]

\* LossKnobs without the lower clamps
LossKnobsUnclamped(rf, pf) ==
    [rf |-> rf - LOSS_RAISE_STEP, pf |-> pf - LOSS_PLAY_STEP]

\* The knobs after a lost hand
LossKnobs(rf, pf) ==
    [rf |-> Max(RAISE_FREQ_MIN, rf - LOSS_RAISE_STEP),
     pf |-> Max(PLAY_FREQ_MIN, pf - LOSS_PLAY_STEP)]

\* HybridBot.hand_complete.  has_key: 'winners' in hand_result;
\* named: self.name in hand_result['winners'].
HandComplete(has_key, named) ==
    /\ hands_played < MaxHands
    /\ hands_played' = hands_played + 1
    /\ IF has_key /\ named
       THEN /\ hands_won' = hands_won + 1
            /\ raise_frequency' = WinKnobs(raise_frequency, play_frequency).rf
            /\ play_frequency' = WinKnobs(raise_frequency, play_frequency).pf
       ELSE /\ hands_won' = hands_won
            /\ raise_frequency' = LossKnobs(raise_frequency, play_frequency).rf
            /\ play_frequency' = LossKnobs(raise_frequency, play_frequency).pf
    /\ hook' = [op |-> "hand_complete", n |-> 0, won |-> (has_key /\ named)]
    /\ UNCHANGED callVars

\* StartKnobs with the defaults restored for a table of middle size
StartKnobsResetting(n, rf, pf) ==
    IF n <= SMALL_TABLE
    THEN [rf |-> SMALL_TABLE_RAISE, pf |-> SMALL_TABLE_PLAY]
    ELSE IF n >= LARGE_TABLE
         THEN [rf |-> LARGE_TABLE_RAISE, pf |-> LARGE_TABLE_PLAY]
         ELSE [rf |-> DEFAULT_RAISE_FREQ, pf |-> DEFAULT_PLAY_FREQ]

\* The knobs after tournament_start with n players
StartKnobs(n, rf, pf) ==
    IF n <= SMALL_TABLE
    THEN [rf |-> SMALL_TABLE_RAISE, pf |-> SMALL_TABLE_PLAY]
    ELSE IF n >= LARGE_TABLE
         THEN [rf |-> LARGE_TABLE_RAISE, pf |-> LARGE_TABLE_PLAY]
         ELSE [rf |-> rf, pf |-> pf]

\* HybridBot.tournament_start, n = len(players)
TournamentStart(n) ==
    /\ raise_frequency' = StartKnobs(n, raise_frequency, play_frequency).rf
    /\ play_frequency' = StartKnobs(n, raise_frequency, play_frequency).pf
    /\ hook' = [op |-> "tournament_start", n |-> n, won |-> FALSE]
    /\ UNCHANGED <<hands_played, hands_won>>
    /\ UNCHANGED callVars

PlayerCounts == 2 .. MaxPlayers

HandCompleteStep == \E has_key \in BOOLEAN, named \in BOOLEAN : HandComplete(has_key, named)
TournamentStartStep == \E n \in PlayerCounts : TournamentStart(n)

Init == InitBot /\ InitIdle

Next == HandCompleteStep \/ TournamentStartStep

Spec == Init /\ [][Next]_vars

----------------------------------------------------------------------------
(* Cards, hands and the engine's hand evaluator *)

Suits == {"c", "d", "h", "s"}
Ranks == 2 .. ACE

Card(r, s) == [rank |-> r, suit |-> s]

\* HandEvaluator.HAND_RANKINGS: the total order of the hand categories
HAND_RANKINGS ==
    [high_card |-> 0, pair |-> 1, two_pair |-> 2, three_of_a_kind |-> 3,
     straight |-> 4, flush |-> 5, full_house |-> 6, four_of_a_kind |-> 7,
     straight_flush |-> 8]

\* HybridBot.premium_hands
premium_hands ==
    {<<ACE, ACE>>, <<KING, KING>>, <<QUEEN, QUEEN>>, <<JACK, JACK>>, <<TEN, TEN>>,
     <<ACE, KING>>, <<ACE, QUEEN>>, <<KING, QUEEN>>}

\* HybridBot.good_suited_connectors
good_suited_connectors ==
    {<<KING, JACK>>, <<QUEEN, JACK>>, <<JACK, TEN>>, <<TEN, NINE>>, <<NINE, EIGHT>>}

Range(seq) == {seq[i] : i \in DOMAIN seq}

----------------------------------------------------------------------------
(* Draw detection *)

\* list.count: the number of positions of seq that hold x
RECURSIVE Count(_, _)
Count(seq, x) ==
    IF seq = <<>> THEN 0
    ELSE (IF Head(seq) = x THEN 1 ELSE 0) + Count(Tail(seq), x)

\* [c.suit for c in all_cards]
SuitsOf(all_cards) == [i \in DOMAIN all_cards |-> all_cards[i].suit]

\* sorted(list(S)) for a set S of integers
RECURSIVE Sorted(_)
Sorted(S) ==
    IF S = {} THEN <<>>
    ELSE LET m == CHOOSE x \in S : \A y \in S : x <= y
         IN <<m>> \o Sorted(S \ {m})

\* sorted(list(set(c.rank.value for c in all_cards)))
SortedRanks(all_cards) == Sorted({all_cards[i].rank : i \in DOMAIN all_cards})

\* the loop over the windows of four sorted distinct ranks
HasWindow(ranks) ==
    \E i \in 1 .. Len(ranks) - 3 : ranks[i + 3] - ranks[i] = 3

\* the ace-low test
AceLow(rset) == {ACE, 2, 3, 4} \subseteq rset \/ {2, 3, 4, 5} \subseteq rset

\* GameInfoAPI.has_flush_draw
HasFlushDraw(all_cards) ==
    LET suits == SuitsOf(all_cards)
    IN \E s \in Range(suits) : Count(suits, s) >= 4

\* has_open_ended_straight_draw without the ace-low test
HasStraightDrawNoWheel(all_cards) ==
    LET ranks == SortedRanks(all_cards)
    IN IF Len(ranks) < 4 THEN FALSE ELSE HasWindow(ranks)

\* GameInfoAPI.has_open_ended_straight_draw
HasOpenEndedStraightDraw(all_cards) ==
    LET ranks == SortedRanks(all_cards)
    IN IF Len(ranks) < 4 THEN FALSE
       ELSE HasWindow(ranks) \/ AceLow(Range(ranks))

\* GameInfoAPI.get_draws
GetDraws(all_cards) ==
    [flush_draw |-> HasFlushDraw(all_cards),
     straight_draw |-> HasOpenEndedStraightDraw(all_cards)]

\* HybridBot._has_strong_draw
HasStrongDraw(all_cards) ==
    LET suits == SuitsOf(all_cards)
        ranks == SortedRanks(all_cards)
    IN \/ \E s \in Range(suits) : Count(suits, s) >= 4
       \/ (Len(ranks) >= 4 /\ HasWindow(ranks))
       \/ AceLow(Range(ranks))

----------------------------------------------------------------------------
(* The random source *)

\* the values of random.random(): k stands for k / DrawDen
Draw == 0 .. DrawDen - 1

\* random.random() > p, p in hundredths
RandomAbove(k, p) == k * 100 > p * DrawDen

\* random.random() < p, p in hundredths
RandomBelow(k, p) == k * 100 < p * DrawDen

\* int(x) of the quotient n / d, d > 0: truncation towards zero
IntTrunc(n, d) == IF n >= 0 THEN n \div d ELSE -((-n) \div d)

\* int(random.uniform(2.5, 4.0) * big_blind); uniform(a, b) is
\* a + (b - a) * random(), here (5 * DrawDen + 3 * k) / (2 * DrawDen)
BlindRaise(k, big_blind) == IntTrunc((5 * DrawDen + 3 * k) * big_blind, 2 * DrawDen)

\* ClipRaise without the cap at max_bet
ClipRaiseNoCap(desired, min_bet, max_bet) == Max(desired, min_bet)

\* raise_amount = min(desired, max_bet); raise_amount = max(raise_amount, min_bet)
ClipRaise(desired, min_bet, max_bet) == Max(Min(desired, max_bet), min_bet)

----------------------------------------------------------------------------
(* HybridBot: the decision policy.  A strategy returns the action, the     *)
(* amount and the number of values it took from the random stream rnd.     *)

Ret(action, amount, used) == [action |-> action, amount |-> amount, used |-> used]

\* IsPremium looking the hand up in the order it was dealt only
IsPremiumOrdered(c1, c2) == <<c1.rank, c2.rank>> \in premium_hands

IsPremium(c1, c2) ==
    <<c1.rank, c2.rank>> \in premium_hands \/ <<c2.rank, c1.rank>> \in premium_hands

IsSuitedConnector(c1, c2) ==
    /\ c1.suit = c2.suit
    /\ \/ <<c1.rank, c2.rank>> \in good_suited_connectors
       \/ <<c2.rank, c1.rank>> \in good_suited_connectors

IsPair(c1, c2) == c1.rank = c2.rank

\* the gate: random.random() > self.play_frequency
GateFires(k, pf) == RandomAbove(k, pf)

\* the weak-hand branch of _preflop_strategy; rnd[2] is its draw
WeakHand(legal_actions, rnd) ==
    IF "CALL" \in legal_actions
    THEN IF RandomBelow(rnd[2], LIMP_PROB) THEN Ret("CALL", 0, 2)
         ELSE IF "CHECK" \in legal_actions THEN Ret("CHECK", 0, 2)
         ELSE Ret("FOLD", 0, 2)
    ELSE IF "CHECK" \in legal_actions THEN Ret("CHECK", 0, 1)
         ELSE Ret("FOLD", 0, 1)

\* the playable-hand branch of _preflop_strategy; rnd[2] decides the raise,
\* rnd[3] sizes it
PlayableHand(rf, big_blind, legal_actions, min_bet, max_bet, rnd) ==
    IF "RAISE" \in legal_actions
    THEN IF RandomBelow(rnd[2], rf)
         THEN Ret("RAISE", ClipRaise(BlindRaise(rnd[3], big_blind), min_bet, max_bet), 3)
         ELSE IF "CALL" \in legal_actions THEN Ret("CALL", 0, 2)
         ELSE Ret("CHECK", 0, 2)
    ELSE IF "CALL" \in legal_actions THEN Ret("CALL", 0, 1)
         ELSE Ret("CHECK", 0, 1)

\* _preflop_strategy with the gate applied to weak hands only
PreflopStrategyGateLast(rf, pf, big_blind, hole_cards, legal_actions, min_bet, max_bet, rnd) ==
    IF Len(hole_cards) # 2 THEN Ret("FOLD", 0, 0)
    ELSE LET c1 == hole_cards[1]
             c2 == hole_cards[2]
         IN IF IsPremium(c1, c2) \/ IsSuitedConnector(c1, c2) \/ IsPair(c1, c2)
            THEN PlayableHand(rf, big_blind, legal_actions, min_bet, max_bet, rnd)
            ELSE IF GateFires(rnd[1], pf)
            THEN IF "CHECK" \in legal_actions THEN Ret("CHECK", 0, 1)
                 ELSE Ret("FOLD", 0, 1)
            ELSE WeakHand(legal_actions, rnd)

\* HybridBot._preflop_strategy
PreflopStrategy(rf, pf, big_blind, hole_cards, legal_actions, min_bet, max_bet, rnd) ==
    IF Len(hole_cards) # 2 THEN Ret("FOLD", 0, 0)
    ELSE IF GateFires(rnd[1], pf)
    THEN IF "CHECK" \in legal_actions THEN Ret("CHECK", 0, 1) ELSE Ret("FOLD", 0, 1)
    ELSE LET c1 == hole_cards[1]
             c2 == hole_cards[2]
         IN IF ~(IsPremium(c1, c2) \/ IsSuitedConnector(c1, c2) \/ IsPair(c1, c2))
            THEN WeakHand(legal_actions, rnd)
            ELSE PlayableHand(rf, big_blind, legal_actions, min_bet, max_bet, rnd)

\* the pair branch's test: to_call <= game_state.pot // 4
PairCallOk(pot, current_bet, player_bet) == current_bet - player_bet <= pot \div 4

\* the end of _postflop_strategy with a bluff of half the pot, a quarter of
\* the time, when there is no draw
DrawOrNothingBluff(all_cards, pot, legal_actions, min_bet, max_bet, rnd) ==
    LET nothing(used) ==
            IF "CHECK" \in legal_actions THEN Ret("CHECK", 0, used)
            ELSE Ret("FOLD", 0, used)
    IN IF HasStrongDraw(all_cards)
       THEN IF "RAISE" \in legal_actions
            THEN IF RandomBelow(rnd[1], SEMI_BLUFF_PROB)
                 THEN Ret("RAISE", ClipRaise(pot \div 2, min_bet, max_bet), 1)
                 ELSE IF "CALL" \in legal_actions THEN Ret("CALL", 0, 1)
                 ELSE nothing(1)
            ELSE IF "CALL" \in legal_actions THEN Ret("CALL", 0, 0)
                 ELSE nothing(0)
       ELSE IF "RAISE" \in legal_actions /\ RandomBelow(rnd[1], 25)
            THEN Ret("RAISE", ClipRaise(pot \div 2, min_bet, max_bet), 1)
            ELSE nothing(IF "RAISE" \in legal_actions THEN 1 ELSE 0)

\* the end of _postflop_strategy: the draw branch and the fallback
DrawOrNothing(all_cards, pot, legal_actions, min_bet, max_bet, rnd) ==
    LET nothing(used) ==
            IF "CHECK" \in legal_actions THEN Ret("CHECK", 0, used)
            ELSE Ret("FOLD", 0, used)
    IN IF HasStrongDraw(all_cards)
       THEN IF "RAISE" \in legal_actions
            THEN IF RandomBelow(rnd[1], SEMI_BLUFF_PROB)
                 THEN Ret("RAISE", ClipRaise(pot \div 2, min_bet, max_bet), 1)
                 ELSE IF "CALL" \in legal_actions THEN Ret("CALL", 0, 1)
                 ELSE nothing(1)
            ELSE IF "CALL" \in legal_actions THEN Ret("CALL", 0, 0)
                 ELSE nothing(0)
       ELSE nothing(0)

\* HybridBot._postflop_strategy; hand_rank is what the engine's evaluator
\* gives for hole_cards + community_cards
PostflopStrategy(hand_rank, pot, current_bet, player_bet, all_cards, legal_actions, min_bet, max_bet, rnd) ==
    IF hand_rank >= HAND_RANKINGS.two_pair
    THEN IF "RAISE" \in legal_actions
         THEN Ret("RAISE", ClipRaise(pot, min_bet, max_bet), 0)
         ELSE IF "CALL" \in legal_actions THEN Ret("CALL", 0, 0)
         ELSE Ret("CHECK", 0, 0)
    ELSE IF /\ hand_rank >= HAND_RANKINGS.pair
            /\ "CALL" \in legal_actions
            /\ PairCallOk(pot, current_bet, player_bet)
    THEN Ret("CALL", 0, 0)
    ELSE IF hand_rank >= HAND_RANKINGS.pair /\ "CHECK" \in legal_actions
    THEN Ret("CHECK", 0, 0)
    ELSE DrawOrNothing(all_cards, pot, legal_actions, min_bet, max_bet, rnd)

\* HybridBot.get_action on the arguments c
HybridGetAction(rf, pf, c, rnd) ==
    IF c.round_name = "preflop"
    THEN PreflopStrategy(rf, pf, c.big_blind, c.hole_cards, c.legal_actions,
                         c.min_bet, c.max_bet, rnd)
    ELSE PostflopStrategy(c.hand_rank, c.pot, c.current_bet, c.player_bet,
                          c.hole_cards \o c.community_cards,
                          c.legal_actions, c.min_bet, c.max_bet, rnd)

----------------------------------------------------------------------------
(* RandomBot *)

\* the largest amount RandomBot.get_action may draw for a raise
MaxRaiseAmount(pot, min_bet, max_bet) ==
    LET pot_raise_limit == IntTrunc(3 * pot, 2)
        max_raise_amount == Min(pot_raise_limit, max_bet)
    IN IF max_raise_amount < min_bet THEN min_bet ELSE max_raise_amount

\* RandomBot.get_action: the results random.choice and random.randint allow
RandomGetAction(c) ==
    {[action |-> a, amount |-> 0] : a \in c.legal_actions \ {"RAISE"}}
    \cup {[action |-> "RAISE", amount |-> m] :
            m \in IF "RAISE" \in c.legal_actions
                  THEN c.min_bet .. MaxRaiseAmount(c.pot, c.min_bet, c.max_bet)
                  ELSE {}}

----------------------------------------------------------------------------
(* GameInfoAPI: the advisory *)

\* list.index(x), 0-based; -1 stands for ValueError
IndexOf(seq, x) ==
    IF \E i \in DOMAIN seq : seq[i] = x
    THEN (CHOOSE i \in DOMAIN seq : seq[i] = x /\ \A j \in 1 .. i - 1 : seq[j] # x) - 1
    ELSE -1

\* GameInfoAPI.get_position_info(...)['is_last']
IsLast(active_players, current_player, player_name) ==
    LET position == IndexOf(active_players, player_name)
        current_pos == IndexOf(active_players, current_player)
    IN IF position = -1 \/ current_pos = -1 THEN FALSE
       ELSE ((position - current_pos) % Len(active_players)) = Len(active_players) - 1

\* GameInfoAPI.get_pot_odds(pot, bet_to_call) >= m
PotOddsAtLeast(pot, bet_to_call, m) ==
    IF bet_to_call = 0 THEN TRUE
    ELSE IF bet_to_call > 0 THEN pot >= m * bet_to_call
    ELSE pot <= m * bet_to_call

\* the advisory's test for a pair with the policy's quarter of the pot
AdvisePairCallQuarter(pot, current_bet, player_bet) ==
    current_bet - player_bet <= pot \div 4

\* the advisory's test for a pair: to_call <= game_state.pot // 3
AdvisePairCallOk(pot, current_bet, player_bet) == current_bet - player_bet <= pot \div 3

\* GameInfoAPI.recommend_aggression
RecommendAggression(c) ==
    LET all_cards == c.hole_cards \o c.community_cards
        to_call == c.current_bet - c.player_bet
        d == GetDraws(all_cards)
    IN IF c.hand_rank >= HAND_RANKINGS.two_pair THEN "raise"
       ELSE IF c.hand_rank >= HAND_RANKINGS.pair
       THEN IF AdvisePairCallOk(c.pot, c.current_bet, c.player_bet)
            THEN "call" ELSE "check_fold"
       ELSE IF d.flush_draw \/ d.straight_draw
       THEN IF \/ PotOddsAtLeast(c.pot, to_call, 3)
               \/ IsLast(c.active_players, c.current_player, c.player_name)
            THEN "raise" ELSE "call"
       ELSE "check_fold"

----------------------------------------------------------------------------
(* The calls the engine and the tests make *)

Actions == {"FOLD", "CHECK", "CALL", "RAISE"}

\* the engine hands every bot at least one legal action
LegalSets == (SUBSET Actions) \ {{}}

BetPairs == {<<lo, hi>> \in (0 .. MaxBet) \X (0 .. MaxBet) : lo <= hi}

\* current_bet and what the player has already put in this round
RoundBets == {<<cb, pb>> \in (0 .. MaxCurBet) \X (0 .. MaxCurBet) : pb <= cb}

\* hole cards handed to the preflop policy: a premium pair, a premium hand
\* listed the other way round, a weak hand, a suited connector, a small
\* pair, and a list that is not two cards
HoleChoices ==
    { <<Card(ACE, "s"), Card(ACE, "d")>>,
      <<Card(KING, "d"), Card(ACE, "h")>>,
      <<Card(7, "c"), Card(2, "d")>>,
      <<Card(JACK, "h"), Card(TEN, "h")>>,
      <<Card(NINE, "s"), Card(NINE, "h")>>,
      <<Card(ACE, "s")>> }

\* hands after the flop, each with the category the engine's evaluator
\* gives it
Boards ==
    { [hole |-> <<Card(ACE, "s"), Card(ACE, "d")>>, round_name |-> "flop",
       board |-> <<Card(ACE, "h"), Card(KING, "d"), Card(KING, "c")>>,
       hand_rank |-> HAND_RANKINGS.full_house],
      [hole |-> <<Card(ACE, "s"), Card(KING, "d")>>, round_name |-> "flop",
       board |-> <<Card(ACE, "h"), Card(7, "c"), Card(2, "d")>>,
       hand_rank |-> HAND_RANKINGS.pair],
      [hole |-> <<Card(JACK, "h"), Card(TEN, "h")>>, round_name |-> "flop",
       board |-> <<Card(NINE, "h"), Card(EIGHT, "h"), Card(2, "c")>>,
       hand_rank |-> HAND_RANKINGS.high_card],
      [hole |-> <<Card(5, "h"), Card(5, "d")>>, round_name |-> "flop",
       board |-> <<Card(6, "c"), Card(7, "s"), Card(EIGHT, "d")>>,
       hand_rank |-> HAND_RANKINGS.pair],
      [hole |-> <<Card(7, "c"), Card(2, "d")>>, round_name |-> "turn",
       board |-> <<Card(KING, "h"), Card(NINE, "s"), Card(4, "d"), Card(QUEEN, "c")>>,
       hand_rank |-> HAND_RANKINGS.high_card],
      [hole |-> <<Card(ACE, "s"), Card(KING, "d")>>, round_name |-> "river",
       board |-> <<Card(ACE, "h"), Card(KING, "c"), Card(7, "d"), Card(2, "s"),
                   Card(NINE, "c")>>,
       hand_rank |-> HAND_RANKINGS.two_pair] }

GetActionCall(bot, round_name, hole, board, hand_rank, pot, rb, big_blind, legal, bets) ==
    [op |-> "get_action", bot |-> bot, round_name |-> round_name,
     hole_cards |-> hole, community_cards |-> board, hand_rank |-> hand_rank,
     pot |-> pot, current_bet |-> rb[1], player_bet |-> rb[2],
     big_blind |-> big_blind, legal_actions |-> legal,
     min_bet |-> bets[1], max_bet |-> bets[2]]

\* preflop calls: the blinds are in, no community card is out; the preflop
\* policy reads neither the pot nor the bets of the round
PreflopCalls(bot) ==
    { GetActionCall(bot, "preflop", hole, <<>>, HAND_RANKINGS.high_card,
                    MaxPot, <<MaxCurBet, 0>>, bb, legal, bets) :
        hole \in HoleChoices, bb \in 1 .. MaxBlind, legal \in LegalSets,
        bets \in BetPairs }

\* calls after the flop; the postflop policy does not read the big blind
PostflopCalls(bot) ==
    { GetActionCall(bot, b.round_name, b.hole, b.board, b.hand_rank,
                    pot, rb, MaxBlind, legal, bets) :
        b \in Boards, pot \in 0 .. MaxPot, rb \in RoundBets, legal \in LegalSets,
        bets \in BetPairs }

\* RandomBot reads the legal actions, the bet bounds and the pot only
RandomCalls ==
    { GetActionCall("RandomBot", "preflop", <<Card(7, "c"), Card(2, "d")>>, <<>>,
                    HAND_RANKINGS.high_card, pot, <<MaxCurBet, 0>>, MaxBlind,
                    legal, bets) :
        pot \in 0 .. MaxPot, legal \in LegalSets, bets \in BetPairs }

\* the knobs a decision is taken with, <<raise_frequency, play_frequency>>:
\* the defaults, the two ends of the ranges the hooks keep them in, and
\* play_frequency set by a test to 0 and to 1.0
KnobChoices ==
    { <<DEFAULT_RAISE_FREQ, DEFAULT_PLAY_FREQ>>,
      <<RAISE_FREQ_MIN, PLAY_FREQ_MIN>>,
      <<RAISE_FREQ_MAX, PLAY_FREQ_MAX>>,
      <<DEFAULT_RAISE_FREQ, 0>>,
      <<DEFAULT_RAISE_FREQ, 100>> }

\* a bot is constructed and its knobs are set
InitDecide ==
    /\ hands_played = 0
    /\ hands_won = 0
    /\ \E k \in KnobChoices : raise_frequency = k[1] /\ play_frequency = k[2]
    /\ hook = NoHook
    /\ InitIdle

Returned(c, rnd, r) ==
    /\ pc' = "returned"
    /\ call' = c
    /\ draws' = rnd
    /\ result' = r
    /\ UNCHANGED botVars

\* one call of HybridBot.get_action before the flop
HybridPreflopCall ==
    /\ pc = "idle"
    /\ \E c \in PreflopCalls("HybridBot"), rnd \in [1 .. 3 -> Draw] :
          LET r == HybridGetAction(raise_frequency, play_frequency, c, rnd)
          IN Returned(c, SubSeq(rnd, 1, r.used),
                      [action |-> r.action, amount |-> r.amount])

\* one call of HybridBot.get_action after the flop
HybridPostflopCall ==
    /\ pc = "idle"
    /\ \E c \in PostflopCalls("HybridBot"), rnd \in [1 .. 1 -> Draw] :
          LET r == HybridGetAction(raise_frequency, play_frequency, c, rnd)
          IN Returned(c, SubSeq(rnd, 1, r.used),
                      [action |-> r.action, amount |-> r.amount])

\* one call of RandomBot.get_action
RandomCall ==
    /\ pc = "idle"
    /\ \E c \in RandomCalls : \E r \in RandomGetAction(c) : Returned(c, <<>>, r)

NextDecide == HybridPreflopCall \/ HybridPostflopCall \/ RandomCall

SpecDecide == InitDecide /\ [][NextDecide]_vars

----------------------------------------------------------------------------
(* The draw detector on its own *)

\* the cards the lists are made of: two suits, a run of low ranks, the ace
\* and one rank apart from the others
DrawCards == {Card(r, s) : r \in {2, 3, 4, 5, NINE, ACE}, s \in {"h", "s"}}

\* lists of 2 .. MaxCards different cards, in every order
CardLists ==
    { l \in UNION {[1 .. n -> DrawCards] : n \in 2 .. MaxCards} :
        \A i, j \in DOMAIN l : i # j => l[i] # l[j] }

\* GameInfoAPI.get_draws and HybridBot._has_strong_draw on the same list
DetectDraws ==
    /\ pc = "idle"
    /\ \E l \in CardLists :
          /\ pc' = "returned"
          /\ call' = [op |-> "get_draws", all_cards |-> l]
          /\ draws' = <<>>
          /\ result' = [flush_draw |-> GetDraws(l).flush_draw,
                        straight_draw |-> GetDraws(l).straight_draw,
                        strong_draw |-> HasStrongDraw(l)]
    /\ UNCHANGED botVars

SpecDraw == Init /\ [][DetectDraws]_vars

----------------------------------------------------------------------------
(* The advisory on its own *)

\* the players still in the hand, in seat order, and who is to act; the
\* bot asks about "hero"
Seatings ==
    { <<"hero", "v1">>, <<"v1", "hero">>, <<"v1", "hero", "v2">>, <<"v1", "v2">> }

AdviseCalls ==
    { [op |-> "recommend_aggression", hole_cards |-> b.hole,
       community_cards |-> b.board, hand_rank |-> b.hand_rank, pot |-> pot,
       current_bet |-> rb[1], player_bet |-> rb[2], active_players |-> seats,
       current_player |-> cur, player_name |-> "hero"] :
        b \in Boards, pot \in 0 .. MaxPot, rb \in RoundBets, seats \in Seatings,
        cur \in {"hero", "v1", "v2"} }

\* one call of GameInfoAPI.recommend_aggression
Advise ==
    /\ pc = "idle"
    /\ \E c \in AdviseCalls :
          /\ pc' = "returned"
          /\ call' = c
          /\ draws' = <<>>
          /\ result' = [advice |-> RecommendAggression(c)]
    /\ UNCHANGED botVars

SpecAdvise == Init /\ [][Advise]_vars

----------------------------------------------------------------------------
(* Properties *)

HybridReturned ==
    pc = "returned" /\ call.op = "get_action" /\ call.bot = "HybridBot"

CheckOrFold(legal_actions) ==
    IF "CHECK" \in legal_actions THEN [action |-> "CHECK", amount |-> 0]
    ELSE [action |-> "FOLD", amount |-> 0]

\* the unordered rank pairs of the premium table
PremiumRankSets ==
    {{ACE}, {KING}, {QUEEN}, {JACK}, {TEN}, {ACE, KING}, {ACE, QUEEN}, {KING, QUEEN}}

\* the unordered rank pairs of the suited-connector table
ConnectorRankSets ==
    {{KING, JACK}, {QUEEN, JACK}, {JACK, TEN}, {TEN, NINE}, {NINE, EIGHT}}

RankSet(hole_cards) == {hole_cards[i].rank : i \in DOMAIN hole_cards}

\* two cards that are neither premium, nor a pair, nor a suited connector
WeakHole(hole_cards) ==
    /\ Len(hole_cards) = 2
    /\ RankSet(hole_cards) \notin PremiumRankSets
    /\ hole_cards[1].rank # hole_cards[2].rank
    /\ ~(hole_cards[1].suit = hole_cards[2].suit
         /\ RankSet(hole_cards) \in ConnectorRankSets)

\* C1: the action HybridBot.get_action returns is one of the legal actions
\* it was given, whatever the round, the cards, the knobs and the draws.
C1_Legality == HybridReturned => result.action \in call.legal_actions

\* C2: whenever get_action (of either bot) returns RAISE the amount lies in
\* [min_bet, max_bet], and whenever it returns FOLD, CHECK or CALL the
\* amount is 0.
C2_AmountValid ==
    (pc = "returned" /\ call.op = "get_action") =>
        /\ result.action = "RAISE" =>
              (call.min_bet <= result.amount /\ result.amount <= call.max_bet)
        /\ result.action \in {"FOLD", "CHECK", "CALL"} => result.amount = 0

\* C2 witness: HybridBot raises after the flop with a pot above max_bet and
\* the amount is cut down to max_bet.
C2_Witness ==
    /\ HybridReturned
    /\ call.round_name # "preflop"
    /\ result.action = "RAISE"
    /\ call.pot > call.max_bet
    /\ call.min_bet < call.max_bet
    /\ result.amount = call.max_bet

\* C3: after any sequence of hand_complete and tournament_start calls the
\* knobs stay in their ranges: 0.3 <= raise_frequency <= 0.8 and
\* 0.6 <= play_frequency <= 0.9.
C3_KnobBounds ==
    /\ 30 <= raise_frequency /\ raise_frequency <= 80
    /\ 60 <= play_frequency /\ play_frequency <= 90

\* C3 witness: a losing streak long enough to have driven both knobs to the
\* lower ends of their ranges.
C3_Witness ==
    /\ hook.op = "hand_complete"
    /\ ~hook.won
    /\ raise_frequency = 30
    /\ play_frequency = 60

\* C4: with play_frequency = 1.0, two hole cards whose unordered rank pair
\* is premium and legal actions {FOLD, CALL, RAISE}, the preflop policy
\* returns RAISE or CALL, never FOLD, for every draw.
C4_PremiumNeverFolded ==
    ( /\ HybridReturned
      /\ call.round_name = "preflop"
      /\ play_frequency = 100
      /\ Len(call.hole_cards) = 2
      /\ RankSet(call.hole_cards) \in PremiumRankSets
      /\ call.legal_actions = {"FOLD", "CALL", "RAISE"} )
    => result.action \in {"RAISE", "CALL"}

\* C4 witness: king-ace, listed the other way round than in the premium
\* table, is raised with the gate disabled.
C4_Witness ==
    /\ HybridReturned
    /\ call.round_name = "preflop"
    /\ play_frequency = 100
    /\ call.hole_cards = <<Card(KING, "d"), Card(ACE, "h")>>
    /\ call.legal_actions = {"FOLD", "CALL", "RAISE"}
    /\ result.action = "RAISE"

\* C5: with play_frequency = 0 and a weak hand the preflop policy returns
\* (CHECK, 0) if CHECK is legal and (FOLD, 0) otherwise, for every value the
\* random source returns, 0.0 included.
C5_GateAtZero ==
    ( /\ HybridReturned
      /\ call.round_name = "preflop"
      /\ play_frequency = 0
      /\ WeakHole(call.hole_cards) )
    => result = CheckOrFold(call.legal_actions)

\* C6, as claimed: after tournament_start the knobs are (0.6, 0.85) for at
\* most 4 players, (0.45, 0.7) for 8 or more, and the defaults (0.5, 0.75)
\* for 5 to 7 players, whatever was called before.
C6_PresetsOrDefaults ==
    hook.op = "tournament_start" =>
        /\ hook.n <= 4 => (raise_frequency = 60 /\ play_frequency = 85)
        /\ hook.n >= 8 => (raise_frequency = 45 /\ play_frequency = 70)
        /\ (5 <= hook.n /\ hook.n <= 7) =>
              (raise_frequency = 50 /\ play_frequency = 75)

\* C6, amended: tournament_start sets the knobs to (0.6, 0.85) for at most
\* 4 players and to (0.45, 0.7) for 8 or more; for 5 to 7 players it leaves
\* both knobs as they were before the call.
C6_PresetsOrUnchanged ==
    [][ hook'.op = "tournament_start" =>
          /\ hook'.n <= 4 => (raise_frequency' = 60 /\ play_frequency' = 85)
          /\ hook'.n >= 8 => (raise_frequency' = 45 /\ play_frequency' = 70)
          /\ (5 <= hook'.n /\ hook'.n <= 7) =>
                (raise_frequency' = raise_frequency /\ play_frequency' = play_frequency)
      ]_vars

\* C6 witness: a tournament of 5 to 7 players starts after the knobs have
\* moved away from the defaults.
C6_Witness ==
    /\ hook.op = "tournament_start"
    /\ 5 <= hook.n /\ hook.n <= 7
    /\ hands_played > 0
    /\ raise_frequency # 50
    /\ play_frequency # 75

\* the situation of C7: after the flop, less than a pair, no strong draw,
\* nobody has bet and RAISE is legal
NothingAndUnbet ==
    /\ HybridReturned
    /\ call.round_name # "preflop"
    /\ call.hand_rank < HAND_RANKINGS.pair
    /\ ~HasStrongDraw(call.hole_cards \o call.community_cards)
    /\ call.current_bet = 0
    /\ "RAISE" \in call.legal_actions

\* C7, as claimed: with less than a pair, no strong draw, current_bet = 0
\* and RAISE legal, some draw makes get_action return RAISE with the amount
\* clip(pot // 2, min_bet, max_bet).
C7_BluffReachable ==
    NothingAndUnbet =>
        \E k \in Draw :
            LET r == HybridGetAction(raise_frequency, play_frequency, call, <<k>>)
            IN /\ r.action = "RAISE"
               /\ r.amount = Max(Min(call.pot \div 2, call.max_bet), call.min_bet)

\* C7, amended: with less than a pair, no strong draw, current_bet = 0 and
\* RAISE legal, get_action returns (CHECK, 0) if CHECK is legal and
\* (FOLD, 0) otherwise, for every draw; it never returns RAISE.
C7_NoBluff ==
    NothingAndUnbet =>
        /\ result = CheckOrFold(call.legal_actions)
        /\ \A k \in Draw :
              HybridGetAction(raise_frequency, play_frequency, call, <<k>>).action
                  # "RAISE"

\* C7 witness: such a hand, with every action legal, is checked.
C7_Witness ==
    /\ NothingAndUnbet
    /\ call.legal_actions = Actions
    /\ call.pot > 0
    /\ result.action = "CHECK"

Advised == pc = "returned" /\ call.op = "recommend_aggression"

Swap(lst, i, j) ==
    [k \in DOMAIN lst |-> IF k = i THEN lst[j] ELSE IF k = j THEN lst[i] ELSE lst[k]]

====
